---- MODULE Spec2Model ----
(***************************************************************************)
(* A model of iscc-core: the Code value object (models.py), the Meta-Code  *)
(* and Video-Code generators (code_meta.py, code_content_video.py) and the *)
(* codec, kernels and chunker they call.  Texts are sequences of Unicode   *)
(* code points, byte strings are sequences of 0..255, tuples are           *)
(* sequences.  A call that raises yields [ok |-> FALSE, err |-> <name>].   *)
(***************************************************************************)
EXTENDS Integers, Sequences, FiniteSets, TLC

VARIABLES obj, via, other, dist, call, ret, frames, cdc, inst, act, seen

codevars == <<obj, via, other, dist>>

genvars == <<call, ret, frames>>

\* what the sessions below do not touch unless they say so
restvars == <<inst, act, seen>>

vars == <<obj, via, other, dist, call, ret, frames, cdc, inst, act, seen>>

(***************************************************************************)
(* Bounds of the model.                                                    *)
(***************************************************************************)
\* longest body (in bytes) given to the Code constructor
MaxBodyLen == 4
\* longest raw byte buffer given to the Code constructor
MaxBufLen == 3

(***************************************************************************)
(* Enumerations and configuration.                                         *)
(***************************************************************************)
MT == [META |-> 0, SEMANTIC |-> 1, CONTENT |-> 2, DATA |-> 3, INSTANCE_ |-> 4,
       ISCC |-> 5, ID |-> 6]

ST == [NONE |-> 0]

ST_CC == [TEXT |-> 0, IMAGE |-> 1, AUDIO |-> 2, VIDEO |-> 3, MIXED |-> 4]

VS == [V0 |-> 0]

(***************************************************************************)
(* Generic helpers.                                                        *)
(***************************************************************************)
\* a sequence given as a function, evaluated once to a tuple
AsTuple(f) == f \o <<>>

RECURSIVE SumSeq(_)
SumSeq(s) == IF s = <<>> THEN 0 ELSE Head(s) + SumSeq(Tail(s))

RECURSIVE Flatten(_)
Flatten(ss) ==
    IF ss = <<>> THEN <<>>
    ELSE IF Len(ss) = 1 THEN ss[1]
    ELSE LET m == Len(ss) \div 2
         IN Flatten(SubSeq(ss, 1, m)) \o Flatten(SubSeq(ss, m + 1, Len(ss)))

\* Flatten for pieces of one width w
FlattenFixed(ss, w) ==
    AsTuple([i \in 1..(w * Len(ss)) |-> ss[((i - 1) \div w) + 1][((i - 1) % w) + 1]])

RECURSIVE SeqsUpTo(_, _)
SeqsUpTo(S, n) ==
    IF n = 0 THEN {<<>>}
    ELSE LET shorter == SeqsUpTo(S, n - 1)
         IN shorter \cup {Append(s, x) : s \in {t \in shorter : Len(t) = n - 1}, x \in S}

Raise(e) == [ok |-> FALSE, err |-> e]

(***************************************************************************)
(* bitarray: frombytes / tobytes / count_xor.                              *)
(***************************************************************************)
frombytes(bytes) ==
    AsTuple([i \in 1..(8 * Len(bytes)) |->
        (bytes[((i - 1) \div 8) + 1] \div (2 ^ (7 - ((i - 1) % 8)))) % 2])

tobytes(bits) ==
    AsTuple([j \in 1..((Len(bits) + 7) \div 8) |->
        SumSeq(AsTuple([k \in 1..8 |->
            IF 8 * (j - 1) + k <= Len(bits)
            THEN bits[8 * (j - 1) + k] * (2 ^ (8 - k)) ELSE 0]))])

\* bitarray.util.count_xor: raises on operands of different length
count_xor(a, b) ==
    IF Len(a) # Len(b) THEN Raise("ValueError")
    ELSE [ok |-> TRUE,
          val |-> Cardinality({i \in 1..Len(a) : a[i] # b[i]})]

(***************************************************************************)
(* Codec: header framing.                                                  *)
(***************************************************************************)
SubTypes(mt) ==
    IF mt = MT.CONTENT THEN 0..4
    ELSE IF mt = MT.ISCC THEN 0..31
    ELSE {ST.NONE}

LengthCodes(mt) == IF mt = MT.ISCC THEN 0..31 ELSE 0..7

ValidHeader(mt, st, vs, ln) ==
    /\ mt \in 0..6
    /\ st \in SubTypes(mt)
    /\ vs = VS.V0
    /\ ln \in LengthCodes(mt)

RECURSIVE write_varnibble(_)
write_varnibble(v) ==
    IF v < 8 THEN <<v>>
    ELSE <<8 + (v % 8)>> \o write_varnibble(v \div 8)

pack_nibbles(nibs) ==
    AsTuple([j \in 1..(Len(nibs) \div 2) |-> 16 * nibs[2 * j - 1] + nibs[2 * j]])

unpack_nibbles(bytes) ==
    AsTuple([i \in 1..(2 * Len(bytes)) |->
        IF i % 2 = 1 THEN bytes[(i + 1) \div 2] \div 16 ELSE bytes[i \div 2] % 16])

write_header(mt, st, vs, ln) ==
    LET nibs == write_varnibble(mt) \o write_varnibble(st)
                \o write_varnibble(vs) \o write_varnibble(ln)
    IN pack_nibbles(IF Len(nibs) % 2 = 1 THEN Append(nibs, 0) ELSE nibs)

RECURSIVE read_varnibble(_, _)
read_varnibble(nibs, pos) ==
    IF pos > Len(nibs) THEN [ok |-> FALSE, val |-> 0, pos |-> pos]
    ELSE IF nibs[pos] < 8 THEN [ok |-> TRUE, val |-> nibs[pos], pos |-> pos + 1]
    ELSE LET rest == read_varnibble(nibs, pos + 1)
         IN [ok |-> rest.ok, val |-> (nibs[pos] - 8) + 8 * rest.val, pos |-> rest.pos]

read_header(data) ==
    LET nibs == unpack_nibbles(data)
        f1 == read_varnibble(nibs, 1)
        f2 == read_varnibble(nibs, f1.pos)
        f3 == read_varnibble(nibs, f2.pos)
        f4 == read_varnibble(nibs, f3.pos)
        \* nibbles consumed = f4.pos - 1; an odd count is followed by one pad nibble
        first == IF f4.pos % 2 = 0 THEN f4.pos \div 2 + 1 ELSE (f4.pos + 1) \div 2
    IN IF ~(f1.ok /\ f2.ok /\ f3.ok /\ f4.ok) THEN Raise("HeaderMalformed")
       ELSE IF ~ValidHeader(f1.val, f2.val, f3.val, f4.val) THEN Raise("HeaderMalformed")
       ELSE [ok |-> TRUE,
             fields |-> <<f1.val, f2.val, f3.val, f4.val,
                          SubSeq(data, first, Len(data))>>]

RECURSIVE popcount(_)
popcount(n) == IF n = 0 THEN 0 ELSE (n % 2) + popcount(n \div 2)

decode_length(mt, ln) ==
    IF mt = MT.ISCC THEN 64 * popcount(ln)
    ELSE IF 32 * (ln + 1) > 256 THEN 256 ELSE 32 * (ln + 1)

(***************************************************************************)
(* Codec: base32 text.  Characters are code points.                        *)
(***************************************************************************)
Colon == <<58>>

Hyphen == <<45>>

Space == <<32>>

b32_char(sym) == IF sym < 26 THEN 65 + sym ELSE 24 + sym

b32_alphabet == {b32_char(s) : s \in 0..31}

b32_sym(ch) == IF ch >= 65 THEN ch - 65 ELSE ch - 24

upper_char(ch) == IF ch >= 97 /\ ch <= 122 THEN ch - 32 ELSE ch

lower_char(ch) ==
    IF (ch >= 65 /\ ch <= 90) \/ (ch >= 192 /\ ch <= 222 /\ ch # 215) THEN ch + 32 ELSE ch

str_upper(s) == AsTuple([i \in 1..Len(s) |-> upper_char(s[i])])

str_lower(s) == AsTuple([i \in 1..Len(s) |-> lower_char(s[i])])

encode_base32(bytes) ==
    LET bits == frombytes(bytes)
        bit(i) == IF i <= Len(bits) THEN bits[i] ELSE 0
    IN AsTuple([k \in 1..((Len(bits) + 4) \div 5) |->
           b32_char(SumSeq(AsTuple([j \in 1..5 |-> bit(5 * (k - 1) + j) * (2 ^ (5 - j))])))])

decode_base32(code) ==
    LET up == str_upper(code)
        n == Len(up)
        bits == FlattenFixed(AsTuple([k \in 1..n |->
                    AsTuple([j \in 1..5 |-> (b32_sym(up[k]) \div (2 ^ (5 - j))) % 2])]), 5)
    IN IF \E k \in 1..n : up[k] \notin b32_alphabet THEN Raise("InvalidBase32")
       ELSE IF (n % 8) \notin {0, 2, 4, 5, 7} THEN Raise("InvalidBase32")
       ELSE [ok |-> TRUE, val |-> tobytes(SubSeq(bits, 1, 8 * ((5 * n) \div 8)))]

ISCC_PREFIX == <<73, 83, 67, 67, 58>>

clean(iscc) ==
    LET bare == IF Len(iscc) >= 5 /\ str_upper(SubSeq(iscc, 1, 5)) = ISCC_PREFIX
                THEN SubSeq(iscc, 6, Len(iscc)) ELSE iscc
    IN SelectSeq(bare, LAMBDA ch : <<ch>> # Hyphen /\ <<ch>> # Space)

(***************************************************************************)
(* models.py: class Code.  A Code object is [ok |-> TRUE, head, body] with *)
(* head the 4-tuple _head and body the bit sequence _body.                 *)
(***************************************************************************)
Code_hash_bytes(c) == tobytes(c.body)

Code_from_fields(code_fields) ==
    [ok |-> TRUE,
     head |-> SubSeq(code_fields, 1, Len(code_fields) - 1),
     body |-> frombytes(code_fields[Len(code_fields)])]

Code_init(code) ==
    IF code.t = "Code" THEN Code_from_fields(code.v.head \o <<Code_hash_bytes(code.v)>>)
    ELSE IF code.t = "str" THEN
        LET raw == decode_base32(clean(code.v))
            hdr == read_header(raw.val)
        IN IF ~raw.ok THEN raw
           ELSE IF ~hdr.ok THEN hdr
           ELSE Code_from_fields(hdr.fields)
    ELSE IF code.t = "tuple" THEN Code_from_fields(code.v)
    ELSE IF code.t = "bytes" THEN
        LET hdr == read_header(code.v)
        IN IF ~hdr.ok THEN hdr ELSE Code_from_fields(hdr.fields)
    ELSE Raise("ValueError")

\* mutant: version and length passed in the wrong order
Code_header_bytes_Swapped(c) == write_header(c.head[1], c.head[2], c.head[4], c.head[3])

Code_header_bytes(c) == write_header(c.head[1], c.head[2], c.head[3], c.head[4])

\* mutant: the body is written before the header
Code_bytes_BodyFirst(c) == tobytes(c.body) \o Code_header_bytes(c)

Code_bytes(c) == Code_header_bytes(c) \o tobytes(c.body)

Code_code(c) == encode_base32(Code_bytes(c))

\* mutant: the scheme is written without its colon
Code_uri_NoColon(c) == <<105, 115, 99, 99>> \o str_lower(Code_code(c))

Code_uri(c) == <<105, 115, 99, 99, 58>> \o str_lower(Code_code(c))

Code_hash_bits(c) == c.body

Code_maintype(c) == c.head[1]

Code_subtype(c) == c.head[2]

Code_length(c) == decode_length(c.head[1], c.head[4])

Code_xor(c, o) == count_xor(c.body, o.body)

Code_eq(c, o) == Code_code(c) = Code_code(o)

(***************************************************************************)
(* Inputs of the Code constructor.                                         *)
(***************************************************************************)
BodyByteVals == {0, 165}

Bodies == SeqsUpTo(BodyByteVals, MaxBodyLen)

FieldVals == {0, 1, 9}

Heads ==
    {h \in {MT.META, MT.CONTENT, MT.ISCC} \X FieldVals \X {VS.V0} \X FieldVals :
        ValidHeader(h[1], h[2], h[3], h[4])}

Tuples == {h \o <<b>> : h \in Heads, b \in Bodies}

BufByteVals == {0, 16, 89, 144, 165}

Buffers == SeqsUpTo(BufByteVals, MaxBufLen)

Hyphenate(s) == IF Len(s) < 4 THEN s ELSE SubSeq(s, 1, 4) \o Hyphen \o SubSeq(s, 5, Len(s))

Texts ==
    LET canon == {Code_code(Code_init([t |-> "tuple", v |-> x])) : x \in Tuples}
    IN canon
       \cup {ISCC_PREFIX \o s : s \in canon}
       \cup {str_lower(ISCC_PREFIX \o Hyphenate(s)) : s \in canon}
       \cup SeqsUpTo({65, 66, 49}, 2)

NoObj == [ok |-> FALSE, err |-> "none"]

(***************************************************************************)
(* The Code session: construct a Code, copy it, compare it.                *)
(***************************************************************************)
Idle == [fn |-> "none"]

\* no stream is being chunked
Closed == [st |-> "closed"]

\* no activation of a generator, nothing remembered
NoCall == [pc |-> "none"]

Init ==
    /\ obj = NoObj
    /\ via = "none"
    /\ other = NoObj
    /\ dist = NoObj
    /\ call = Idle
    /\ ret = NoObj
    /\ frames = <<>>
    /\ cdc = Closed
    /\ inst = Closed
    /\ act = NoCall
    /\ seen = NoCall

NewFromTuple ==
    /\ obj = NoObj
    /\ \E x \in Tuples :
           /\ obj' = Code_init([t |-> "tuple", v |-> x])
           /\ via' = "tuple"
           /\ UNCHANGED <<other, dist, genvars, cdc, restvars>>

NewFromBytes ==
    /\ obj = NoObj
    /\ \E x \in Buffers :
           /\ obj' = Code_init([t |-> "bytes", v |-> x])
           /\ via' = "bytes"
           /\ UNCHANGED <<other, dist, genvars, cdc, restvars>>

NewFromStr ==
    /\ obj = NoObj
    /\ \E x \in Texts :
           /\ obj' = Code_init([t |-> "str", v |-> x])
           /\ via' = "str"
           /\ UNCHANGED <<other, dist, genvars, cdc, restvars>>

NewFromCode ==
    /\ obj.ok
    /\ via # "Code"
    /\ other = NoObj
    /\ obj' = Code_init([t |-> "Code", v |-> obj])
    /\ via' = "Code"
    /\ UNCHANGED <<other, dist, genvars, cdc, restvars>>

XorHeads == {<<MT.META, 0, 0, 0>>, <<MT.META, 0, 0, 1>>, <<MT.CONTENT, 0, 0, 0>>,
             <<MT.CONTENT, 1, 0, 0>>}

XorBodies == SeqsUpTo({0}, MaxBodyLen) \cup SeqsUpTo({165}, MaxBodyLen)

Xor ==
    \E h \in XorHeads, b \in XorBodies :
        /\ obj.ok
        /\ other = NoObj
        /\ other' = Code_init([t |-> "tuple", v |-> h \o <<b>>])
        /\ dist' = Code_xor(obj, other')
        /\ UNCHANGED <<obj, via, genvars, cdc, restvars>>

\* the objects go out of scope
Drop ==
    /\ obj # NoObj
    /\ obj' = NoObj
    /\ via' = "none"
    /\ other' = NoObj
    /\ dist' = NoObj
    /\ UNCHANGED <<genvars, cdc, restvars>>

NextCode == NewFromTuple \/ NewFromBytes \/ NewFromStr \/ NewFromCode \/ Xor \/ Drop

SpecCode == Init /\ [][NextCode]_vars

(***************************************************************************)
(* Properties of the Code object.                                          *)
(***************************************************************************)
\* a Code as it stands right after its construction
Held == obj.ok /\ other = NoObj

SameCode(a, b) == a.ok /\ a.head = b.head /\ a.body = b.body /\ Code_eq(a, b)

C2_LengthMatchesHeader == Held => Code_length(obj) = Len(Code_hash_bits(obj))

HeadersAgree(a, b) ==
    /\ Code_maintype(a) = Code_maintype(b)
    /\ Code_subtype(a) = Code_subtype(b)
    /\ Code_length(a) = Code_length(b)

\* C3 (as claimed): the ^ operator yields a distance only for two Codes whose
\* headers agree in (MainType, SubType, Length).
\* The operands are taken with bodies of their declared length.
C3_DistanceOnlyWhenHeadersAgree ==
    (/\ obj.ok /\ other.ok /\ dist.ok
     /\ Len(obj.body) = Code_length(obj) /\ Len(other.body) = Code_length(other))
        => HeadersAgree(obj, other)

NibbleCount(v) == IF v < 8 THEN 1 ELSE 1 + (IF v \div 8 < 8 THEN 1 ELSE 2)

\* C5: header framing round trip: for every Code built from a tuple of
\* in-range fields, read_header(header_bytes || body) gives back the four
\* fields and the body; a field below 8 takes one nibble and a larger one a
\* continuation nibble, the first nibble is the high half of the first byte,
\* and an odd nibble count is padded with one zero nibble that is part of
\* neither a field nor the body.
C5_HeaderFraming ==
    (Held /\ via = "tuple") =>
        LET hb == Code_header_bytes(obj)
            body == Code_hash_bytes(obj)
            n == NibbleCount(obj.head[1]) + NibbleCount(obj.head[2])
                 + NibbleCount(obj.head[3]) + NibbleCount(obj.head[4])
            back == read_header(hb \o body)
        IN /\ 2 * Len(hb) = n + (n % 2)
           /\ hb[1] \div 16 = obj.head[1]
           /\ (n % 2 = 1) => (hb[Len(hb)] % 16 = 0)
           /\ back.ok
           /\ back.fields = obj.head \o <<body>>

C5_Witness ==
    /\ obj.ok
    /\ via = "tuple"
    /\ obj.head[2] >= 8
    /\ obj.head[4] < 8
    /\ Len(obj.body) > 0

(***************************************************************************)
(* Python values handed to the generators.                                 *)
(***************************************************************************)
PyNone == [t |-> "None", v |-> <<>>]

PyStr(s) == [t |-> "str", v |-> s]

PyBytes(b) == [t |-> "bytes", v |-> b]

Min(a, b) == IF a < b THEN a ELSE b

Max(a, b) == IF a > b THEN a ELSE b

core_opts ==
    [meta_bits |-> 64, meta_trim_title |-> 128, meta_trim_extra |-> 4096,
     meta_ngram_size_title |-> 4, meta_ngram_size_extra_text |-> 3,
     meta_ngram_size_extra_binary |-> 3, video_bits |-> 64]

(***************************************************************************)
(* Text handling: UTF-8, strip, collapse_text, sliding_window.             *)
(***************************************************************************)
utf8_char(cp) ==
    IF cp < 128 THEN <<cp>>
    ELSE IF cp < 2048 THEN <<192 + (cp \div 64), 128 + (cp % 64)>>
    ELSE IF cp < 65536
         THEN <<224 + (cp \div 4096), 128 + ((cp \div 64) % 64), 128 + (cp % 64)>>
    ELSE <<240 + (cp \div 262144), 128 + ((cp \div 4096) % 64),
           128 + ((cp \div 64) % 64), 128 + (cp % 64)>>

encode_utf8(s) == Flatten(AsTuple([i \in 1..Len(s) |-> utf8_char(s[i])]))

\* bytes.decode("utf-8", "ignore"): a byte that starts no complete character
\* is dropped
decode_utf8_ignore(b) ==
    LET need(i) == IF b[i] < 128 THEN 0
                   ELSE IF b[i] >= 192 /\ b[i] < 224 THEN 1
                   ELSE IF b[i] >= 224 /\ b[i] < 240 THEN 2
                   ELSE IF b[i] >= 240 /\ b[i] < 248 THEN 3
                   ELSE 4
        complete(i) == /\ need(i) < 4
                       /\ Len(b) >= i + need(i)
                       /\ \A k \in (i + 1)..(i + need(i)) : b[k] >= 128 /\ b[k] < 192
        cp(i) == IF need(i) = 0 THEN b[i]
                 ELSE IF need(i) = 1 THEN 64 * (b[i] - 192) + (b[i + 1] - 128)
                 ELSE IF need(i) = 2
                      THEN 4096 * (b[i] - 224) + 64 * (b[i + 1] - 128) + (b[i + 2] - 128)
                 ELSE 262144 * (b[i] - 240) + 4096 * (b[i + 1] - 128)
                      + 64 * (b[i + 2] - 128) + (b[i + 3] - 128)
    IN Flatten(AsTuple([i \in 1..Len(b) |-> IF complete(i) THEN <<cp(i)>> ELSE <<>>]))

is_space(cp) == cp <= 32 \/ cp = 133 \/ cp = 160

\* str.isspace for one character: what str.strip() takes off
str_isspace(cp) ==
    \/ cp \in 9..13 \/ cp \in 28..32 \/ cp \in {133, 160, 5760}
    \/ cp \in 8192..8202 \/ cp \in {8232, 8233, 8239, 8287, 12288}

RECURSIVE lstrip(_)
lstrip(s) == IF s # <<>> /\ str_isspace(Head(s)) THEN lstrip(Tail(s)) ELSE s

RECURSIVE rstrip(_)
rstrip(s) ==
    IF s # <<>> /\ str_isspace(s[Len(s)]) THEN rstrip(SubSeq(s, 1, Len(s) - 1)) ELSE s

strip(s) == rstrip(lstrip(s))

\* a space followed by a space is dropped
collapse_runs(s) ==
    Flatten(AsTuple([i \in 1..Len(s) |->
        IF i < Len(s) /\ s[i] = 32 /\ s[i + 1] = 32 THEN <<>> ELSE <<s[i]>>]))

collapse_text(text) ==
    strip(collapse_runs(AsTuple([i \in 1..Len(text) |-> IF is_space(text[i]) THEN 32 ELSE text[i]])))

sliding_window(seq, width) ==
    AsTuple([i \in 1..Max(Len(seq) - width + 1, 1) |-> SubSeq(seq, i, Min(i + width - 1, Len(seq)))])

(***************************************************************************)
(* Kernels: Blake3 (external, a fixed 32-byte digest function) and SimHash.*)
(***************************************************************************)
\* absorbing data takes the state h to (a * h + b) % 32749, one byte d
\* taking it to (131 * h + d + 1) % 32749: the pair <<a, b>> for data
RECURSIVE blake3_absorb(_)
blake3_absorb(data) ==
    IF data = <<>> THEN <<1, 0>>
    ELSE IF Len(data) = 1 THEN <<131, data[1] + 1>>
    ELSE LET m == Len(data) \div 2
             front == blake3_absorb(SubSeq(data, 1, m))
             back == blake3_absorb(SubSeq(data, m + 1, Len(data)))
         IN <<(back[1] * front[1]) % 32749, (back[1] * front[2] + back[2]) % 32749>>

blake3_mix(h, data) ==
    LET ab == blake3_absorb(data)
    IN (ab[1] * h + ab[2]) % 32749

blake3(data) ==
    LET h == blake3_mix(Len(data) + 7, data)
    IN AsTuple([j \in 1..32 |-> ((h + j) * (h + 2 * j + 1) + (h \div (j + 1))) % 256])

hex_char(n) == IF n < 10 THEN 48 + n ELSE 87 + n

hexdigest(bytes) ==
    AsTuple([i \in 1..(2 * Len(bytes)) |->
        hex_char(IF i % 2 = 1 THEN bytes[(i + 1) \div 2] \div 16 ELSE bytes[i \div 2] % 16)])

similarity_hash(hash_digests) ==
    LET n == Len(hash_digests)
        \* the number of digests with bit k (1 = most significant) of byte b set
        votes(b, k) ==
            Cardinality({i \in 1..n : (hash_digests[i][b] \div (2 ^ (8 - k))) % 2 = 1})
    IN AsTuple([b \in 1..Len(hash_digests[1]) |->
           SumSeq(AsTuple([k \in 1..8 |-> IF 2 * votes(b, k) > n THEN 2 ^ (8 - k) ELSE 0]))])

(***************************************************************************)
(* Codec: encode_component, encode_base64.                                 *)
(***************************************************************************)
ValidBits == {32 * k : k \in 1..8}

encode_length(mt, bits) == (bits \div 32) - 1

encode_component(mtype, stype, version, bit_length, digest) ==
    IF bit_length \notin ValidBits THEN Raise("InvalidBitLength")
    ELSE [ok |-> TRUE,
          val |-> encode_base32(
                      write_header(mtype, stype, version, encode_length(mtype, bit_length))
                      \o SubSeq(digest, 1, bit_length \div 8))]

b64_char(sym) ==
    IF sym < 26 THEN 65 + sym
    ELSE IF sym < 52 THEN 71 + sym
    ELSE IF sym < 62 THEN sym - 4
    ELSE IF sym = 62 THEN 45 ELSE 95

encode_base64(bytes) ==
    LET bits == frombytes(bytes)
        bit(i) == IF i <= Len(bits) THEN bits[i] ELSE 0
    IN AsTuple([k \in 1..((Len(bits) + 5) \div 6) |->
           b64_char(SumSeq(AsTuple([j \in 1..6 |-> bit(6 * (k - 1) + j) * (2 ^ (6 - j))])))])

(***************************************************************************)
(* more_itertools: sliced, interleave.                                     *)
(***************************************************************************)
sliced(seq, n) ==
    AsTuple([k \in 1..((Len(seq) + n - 1) \div n) |-> SubSeq(seq, n * (k - 1) + 1, Min(n * k, Len(seq)))])

interleave(a, b) ==
    AsTuple([i \in 1..(2 * Min(Len(a), Len(b))) |-> IF i % 2 = 1 THEN a[(i + 1) \div 2] ELSE b[i \div 2]])

(***************************************************************************)
(* code_meta.py                                                            *)
(***************************************************************************)
\* mutant: the limit counts characters instead of bytes
trim_text_CountsChars(text, nbytes) == strip(SubSeq(text, 1, Min(nbytes, Len(text))))

trim_text(text, nbytes) ==
    strip(decode_utf8_ignore(SubSeq(encode_utf8(text), 1, Min(nbytes, Len(encode_utf8(text))))))

title_simhash(title) ==
    LET title_n_grams == sliding_window(str_lower(title), core_opts.meta_ngram_size_title)
    IN similarity_hash(AsTuple([i \in 1..Len(title_n_grams) |-> blake3(encode_utf8(title_n_grams[i]))]))

extra_simhash(extra) ==
    IF extra.t = "bytes"
    THEN LET extra_n_grams == sliding_window(extra.v, core_opts.meta_ngram_size_extra_binary)
         IN similarity_hash(AsTuple([i \in 1..Len(extra_n_grams) |-> blake3(extra_n_grams[i])]))
    ELSE LET extra_n_grams == sliding_window(str_lower(extra.v),
                                             core_opts.meta_ngram_size_extra_text)
         IN similarity_hash(AsTuple([i \in 1..Len(extra_n_grams) |->
                blake3(encode_utf8(extra_n_grams[i]))]))

\* mutant: the description's hash is never interleaved
soft_hash_meta_v0_TitleOnly(title, extra) ==
    [ok |-> TRUE, val |-> title_simhash(title)]

soft_hash_meta_v0(title, extra) ==
    LET simhash_digest == title_simhash(title)
    IN IF extra \in {PyNone, PyStr(<<>>), PyBytes(<<>>)} THEN [ok |-> TRUE, val |-> simhash_digest]
       ELSE IF extra.t \notin {"bytes", "str"} THEN Raise("ValueError")
       ELSE [ok |-> TRUE,
             val |-> FlattenFixed(interleave(sliced(SubSeq(simhash_digest, 1, 16), 4),
                                             sliced(SubSeq(extra_simhash(extra), 1, 16), 4)),
                                  4)]

\* the name after step 1 of gen_meta_code_v0
meta_name(name) ==
    trim_text(collapse_text(IF name = PyNone THEN <<>> ELSE name.v), core_opts.meta_trim_title)

\* mutant: step 2 lets a description of any type through
meta_extra_Unchecked(name, description) ==
    [ok |-> TRUE, description |-> description, metahash_payload |-> <<>>]

\* the description and the metahash payload after step 2 of gen_meta_code_v0
meta_extra(name, description) ==
    IF description \in {PyNone, PyStr(<<>>)}
    THEN [ok |-> TRUE, description |-> PyNone, metahash_payload |-> encode_utf8(meta_name(name))]
    ELSE IF description.t = "str"
    THEN [ok |-> TRUE,
          description |-> PyStr(trim_text(collapse_text(description.v),
                                          core_opts.meta_trim_extra)),
          metahash_payload |-> encode_utf8(description.v)]
    ELSE IF description.t = "bytes"
    THEN [ok |-> TRUE,
          description |-> PyBytes(SubSeq(description.v, 1,
                              Min(core_opts.meta_trim_extra, Len(description.v)))),
          metahash_payload |-> description.v]
    ELSE Raise("ValueError")

gen_meta_code_v0(name, description, bits) ==
    LET nm == meta_name(name)
        step2 == meta_extra(name, description)
        digest == soft_hash_meta_v0(nm, step2.description)
        meta_code == encode_component(MT.META, ST.NONE, VS.V0, bits, digest.val)
    IN IF ~step2.ok THEN step2
       ELSE IF ~digest.ok THEN digest
       ELSE IF ~meta_code.ok THEN meta_code
       ELSE [ok |-> TRUE,
             iscc |-> ISCC_PREFIX \o meta_code.val,
             name |-> IF nm = <<>> THEN PyNone ELSE PyStr(nm),
             description |-> IF step2.description.t = "bytes"
                             THEN PyStr(encode_base64(step2.description.v))
                             ELSE step2.description,
             metahash |-> hexdigest(blake3(step2.metahash_payload))]

gen_meta_code(name, description, bits) == gen_meta_code_v0(name, description, bits)

(***************************************************************************)
(* Kernel: WTAHash.  The permutation table is fixed; entry t names K = 4   *)
(* positions of the vector, and the 2-bit rank of the largest value (the   *)
(* first one on a tie) is appended for each entry: 128 entries, 256 bits.  *)
(***************************************************************************)
wta_entry(t, n) ==
    LET x == 37 * t + 11
    IN <<(x % n) + 1, ((x \div n) % n) + 1, ((x \div (n * n)) % n) + 1,
         ((x \div (n * n * n)) % n) + 1>>

wta_winner(vec, e) ==
    CHOOSE w \in 1..4 :
        /\ \A j \in 1..4 : vec[e[j]] <= vec[e[w]]
        /\ \A j \in 1..(w - 1) : vec[e[j]] < vec[e[w]]

wtahash(vec) ==
    IF vec = <<>> THEN Raise("IndexError")
    ELSE [ok |-> TRUE,
          val |-> tobytes(AsTuple([i \in 1..256 |->
                      LET w == wta_winner(vec, wta_entry((i - 1) \div 2, Len(vec))) - 1
                      IN IF i % 2 = 1 THEN w \div 2 ELSE w % 2]))]

(***************************************************************************)
(* code_content_video.py                                                   *)
(***************************************************************************)
Range(seq) == {seq[i] : i \in 1..Len(seq)}

RECURSIVE SumColumn(_, _)
SumColumn(sigs, c) ==
    IF sigs = {} THEN 0
    ELSE LET sig == CHOOSE x \in sigs : TRUE
         IN sig[c] + SumColumn(sigs \ {sig}, c)

\* mutant: the signatures are summed without being made a set
hash_video_v0_NoSet(frame_signatures) ==
    wtahash(IF frame_signatures = <<>> THEN <<>>
            ELSE AsTuple([c \in 1..Len(frame_signatures[1]) |->
                     SumSeq(AsTuple([i \in 1..Len(frame_signatures) |-> frame_signatures[i][c]]))]))

hash_video_v0(frame_signatures) ==
    LET sigs == Range(frame_signatures)
        vecsum == IF sigs = {} THEN <<>>
                  ELSE AsTuple([c \in 1..Len(frame_signatures[1]) |-> SumColumn(sigs, c)])
    IN wtahash(vecsum)

\* mutant: the generator hands the codec the end of the digest
gen_video_code_v0_Tail(frame_signatures, bits) ==
    LET digest == hash_video_v0(frame_signatures)
        tail == SubSeq(digest.val, Len(digest.val) - (bits \div 8) + 1, Len(digest.val))
        video_code == encode_component(MT.CONTENT, ST_CC.VIDEO, VS.V0, bits, tail)
    IN IF ~digest.ok THEN digest
       ELSE IF ~video_code.ok THEN video_code
       ELSE [ok |-> TRUE, code |-> video_code.val]

gen_video_code_v0(frame_signatures, bits) ==
    LET digest == hash_video_v0(frame_signatures)
        video_code == encode_component(MT.CONTENT, ST_CC.VIDEO, VS.V0, bits, digest.val)
    IN IF ~digest.ok THEN digest
       ELSE IF ~video_code.ok THEN video_code
       ELSE [ok |-> TRUE, code |-> video_code.val]

gen_video_code(frame_signatures, bits) == gen_video_code_v0(frame_signatures, bits)

(***************************************************************************)
(* Inputs of the generators.                                               *)
(***************************************************************************)
\* longest enumerated name, in characters
MaxNameLen == 2
\* longest enumerated description, in characters or bytes
MaxDescLen == 1
\* most frame signatures in one video
MaxFrames == 3

NameChars == {72, 32}

LongNames == {<<72, 101, 108, 108, 111>>, <<32, 198, 105, 72, 10, 32, 105, 198, 32>>}

Names == {PyNone} \cup {PyStr(x) : x \in SeqsUpTo(NameChars, MaxNameLen) \cup LongNames}

Descriptions ==
    {PyNone}
    \cup {PyStr(x) : x \in SeqsUpTo({32, 87}, MaxDescLen) \cup {<<87, 111, 114, 108, 100>>}}
    \cup {PyBytes(x) : x \in SeqsUpTo({0, 255}, MaxDescLen) \cup {<<1, 2, 3, 4, 5>>}}

FrameSigs == {<<0, 1, 2, 3>>, <<3, 1, 0, 2>>, <<1, 1, 1, 1>>}

(***************************************************************************)
(* The generator session: one call at a time, its arguments in call and    *)
(* what it returned (or raised) in ret; frames is the list of frame        *)
(* signatures the caller has collected for the next video call.            *)
(***************************************************************************)
CallGenMetaCodeV0 ==
    /\ call = Idle
    /\ frames = <<>>
    /\ \E name \in Names, description \in Descriptions, bits \in ValidBits :
           /\ call' = [fn |-> "gen_meta_code_v0", name |-> name,
                       description |-> description, bits |-> bits]
           /\ ret' = gen_meta_code_v0(name, description, bits)
    /\ UNCHANGED <<frames, codevars, cdc, restvars>>

CallGenMetaCode ==
    /\ call = Idle
    /\ frames = <<>>
    /\ \E name \in Names, description \in Descriptions :
           /\ call' = [fn |-> "gen_meta_code", name |-> name,
                       description |-> description, bits |-> core_opts.meta_bits]
           /\ ret' = gen_meta_code(name, description, core_opts.meta_bits)
    /\ UNCHANGED <<frames, codevars, cdc, restvars>>

CallSoftHashMeta ==
    /\ call = Idle
    /\ frames = <<>>
    /\ \E name \in Names \ {PyNone}, extra \in Descriptions :
           /\ call' = [fn |-> "soft_hash_meta_v0", title |-> name.v, extra |-> extra]
           /\ ret' = soft_hash_meta_v0(name.v, extra)
    /\ UNCHANGED <<frames, codevars, cdc, restvars>>

AddFrame ==
    /\ call = Idle
    /\ Len(frames) < MaxFrames
    /\ \E sig \in FrameSigs : frames' = Append(frames, sig)
    /\ UNCHANGED <<call, ret, codevars, cdc, restvars>>

ReorderFrames ==
    /\ call = Idle
    /\ \E i \in 1..(Len(frames) - 1) :
           frames' = [frames EXCEPT ![i] = frames[i + 1], ![i + 1] = frames[i]]
    /\ UNCHANGED <<call, ret, codevars, cdc, restvars>>

CallHashVideo ==
    /\ call = Idle
    /\ call' = [fn |-> "hash_video_v0", frame_signatures |-> frames]
    /\ ret' = hash_video_v0(frames)
    /\ UNCHANGED <<frames, codevars, cdc, restvars>>

CallGenVideoCodeV0 ==
    /\ call = Idle
    /\ \E bits \in ValidBits :
           /\ call' = [fn |-> "gen_video_code_v0", frame_signatures |-> frames, bits |-> bits]
           /\ ret' = gen_video_code_v0(frames, bits)
    /\ UNCHANGED <<frames, codevars, cdc, restvars>>

CallGenVideoCode ==
    /\ call = Idle
    /\ call' = [fn |-> "gen_video_code", frame_signatures |-> frames,
                bits |-> core_opts.video_bits]
    /\ ret' = gen_video_code(frames, core_opts.video_bits)
    /\ UNCHANGED <<frames, codevars, cdc, restvars>>

Return ==
    /\ call # Idle
    /\ call' = Idle
    /\ ret' = NoObj
    /\ frames' = <<>>
    /\ UNCHANGED <<codevars, cdc, restvars>>

NextGen ==
    \/ CallGenMetaCodeV0 \/ CallGenMetaCode \/ CallSoftHashMeta
    \/ AddFrame \/ ReorderFrames \/ CallHashVideo \/ CallGenVideoCodeV0 \/ CallGenVideoCode
    \/ Return

SpecGen == Init /\ [][NextGen]_vars

(***************************************************************************)
(* Claims about the generators, checked under SpecGen.                     *)
(***************************************************************************)
MetaCall == call.fn \in {"gen_meta_code_v0", "gen_meta_code"}

IsEmptyDescription(d) == d \in {PyNone, PyStr(<<>>), PyBytes(<<>>)}

DescriptionBytes(d) == IF d.t = "bytes" THEN d.v ELSE encode_utf8(d.v)

\* C6: the metahash returned by gen_meta_code_v0 is the Blake3 hex digest of
\* the description's bytes when the description is non-empty, and of the
\* UTF-8 bytes of the (normalized) name whenever the description is None,
\* the empty text or the empty bytes.
C6_MetahashPayload ==
    (MetaCall /\ ret.ok) =>
        ret.metahash = hexdigest(blake3(
            IF IsEmptyDescription(call.description)
            THEN encode_utf8(meta_name(call.name))
            ELSE DescriptionBytes(call.description)))

\* C7: with a non-empty description soft_hash_meta_v0 returns 32 bytes, bytes
\* [8k, 8k+4) from bytes [4k, 4k+4) of the title SimHash and bytes
\* [8k+4, 8k+8) from bytes [4k, 4k+4) of the description SimHash, k = 0..3;
\* with None, "" or b"" it returns the title SimHash, and the Meta-Code of
\* (name, None), (name, "") and (name, b"") is one code.
C7_DigestComposition ==
    /\ (call.fn = "soft_hash_meta_v0" /\ ret.ok) =>
           IF IsEmptyDescription(call.extra)
           THEN ret.val = title_simhash(call.title)
           ELSE /\ Len(ret.val) = 32
                /\ \A k \in 0..3 :
                       /\ SubSeq(ret.val, 8 * k + 1, 8 * k + 4)
                            = SubSeq(title_simhash(call.title), 4 * k + 1, 4 * k + 4)
                       /\ SubSeq(ret.val, 8 * k + 5, 8 * k + 8)
                            = SubSeq(extra_simhash(call.extra), 4 * k + 1, 4 * k + 4)
    /\ (MetaCall /\ ret.ok /\ IsEmptyDescription(call.description)) =>
           \A d \in {PyNone, PyStr(<<>>), PyBytes(<<>>)} :
               gen_meta_code_v0(call.name, d, call.bits).iscc = ret.iscc

\* a non-empty description whose SimHash differs from the title's in the
\* first chunk has been interleaved
C7_Witness ==
    /\ call.fn = "soft_hash_meta_v0"
    /\ ret.ok
    /\ ~IsEmptyDescription(call.extra)
    /\ SubSeq(ret.val, 1, 4) # SubSeq(ret.val, 5, 8)
    /\ SubSeq(title_simhash(call.title), 1, 4) # SubSeq(title_simhash(call.title), 5, 8)

\* the body bits of a generated code, read back through the Code constructor
BodyBits(iscc) == Code_hash_bits(Code_init(PyStr(iscc)))

C9_SetSemantics ==
    (call.fn = "hash_video_v0") =>
        \A g \in SeqsUpTo(Range(call.frame_signatures), MaxFrames) :
            Range(g) = Range(call.frame_signatures) => hash_video_v0(g) = ret

\* a hash of two distinct signatures, one of them repeated, out of order
C9_Witness ==
    /\ call.fn = "hash_video_v0"
    /\ ret.ok
    /\ Len(call.frame_signatures) = 3
    /\ Cardinality(Range(call.frame_signatures)) = 2
    /\ call.frame_signatures[1] = call.frame_signatures[3]
    /\ ret # hash_video_v0(<<call.frame_signatures[1]>>)

(***************************************************************************)
(* CDC, the content-defined chunker (cdc.py, specification 4.5).  The      *)
(* sizes, the masks and the width of the gear hash are scaled down from    *)
(* 256 / 1024 / 65536 bytes, 64 bits and a 256 KiB read so that every      *)
(* branch of the split rule is met by streams of a few bytes; the rule is  *)
(* the one of the specification.                                          *)
(***************************************************************************)
cdc_opts ==
    [cdc_min_size |-> 2, data_avg_chunk_size |-> 4, cdc_max_size |-> 6,
     cdc_read_size |-> 4, cdc_gear_mask_s |-> 6, cdc_gear_mask_l |-> 2,
     cdc_gear_modulus |-> 64]

\* the gear table: one value of the hash width for each byte value
cdc_gear == [b \in 0..255 |-> (54 * b + 1) % cdc_opts.cdc_gear_modulus]

RECURSIVE bit_and(_, _)
bit_and(a, b) ==
    IF a = 0 \/ b = 0 THEN 0
    ELSE ((a % 2) * (b % 2)) + 2 * bit_and(a \div 2, b \div 2)

\* h = (h << 1) + GEAR[byte], in the width of the hash
cdc_roll(h, byte) == (2 * h + cdc_gear[byte]) % cdc_opts.cdc_gear_modulus

\* the content-defined part of the split rule, at offset i with hash h
cdc_match(i, h) ==
    \/ i < cdc_opts.data_avg_chunk_size /\ bit_and(h, cdc_opts.cdc_gear_mask_s) = 0
    \/ i >= cdc_opts.data_avg_chunk_size /\ bit_and(h, cdc_opts.cdc_gear_mask_l) = 0

\* mutant: the split is never forced
cdc_forced_Never(i) == FALSE

\* the forced part of the split rule
cdc_forced(i) == i = cdc_opts.cdc_max_size

\* emit the chunk (offset, length) and start the next one with h = 0
cdc_emit(c, length) ==
    [c EXCEPT !.chunks = Append(c.chunks, <<c.start, length>>),
              !.start = c.start + length, !.i = 0, !.h = 0]

\* longest enumerated input stream, in bytes
MaxStreamLen == 10

StreamByteVals == {0, 255}

Streams == SeqsUpTo(StreamByteVals, MaxStreamLen)

(***************************************************************************)
(* The chunker session.  cdc.data is what the handle delivers, cdc.fetched *)
(* how much of it has been pulled, cdc.start the offset of the chunk being *)
(* built, cdc.i the offset in that chunk of the next byte, cdc.h the gear  *)
(* hash, cdc.chunks the (offset, length) pairs emitted so far.             *)
(***************************************************************************)
CdcOpen ==
    /\ cdc = Closed
    /\ call = Idle /\ frames = <<>> /\ obj = NoObj
    /\ \E data \in Streams :
           cdc' = [st |-> "open", data |-> data, fetched |-> 0, start |-> 0,
                   i |-> 0, h |-> 0, chunks |-> <<>>]
    /\ UNCHANGED <<codevars, genvars, restvars>>

\* pull the next fixed-size read from the handle
CdcRead ==
    /\ cdc.st = "open"
    /\ cdc.start + cdc.i = cdc.fetched
    /\ cdc.fetched < Len(cdc.data)
    /\ ~cdc_forced(cdc.i)
    /\ cdc' = [cdc EXCEPT !.fetched = Min(cdc.fetched + cdc_opts.cdc_read_size,
                                           Len(cdc.data))]
    /\ UNCHANGED <<codevars, genvars, restvars>>

\* no split before min_size: the byte joins the chunk unhashed
CdcSkip ==
    /\ cdc.st = "open"
    /\ cdc.start + cdc.i < cdc.fetched
    /\ cdc.i < cdc_opts.cdc_min_size
    /\ cdc' = [cdc EXCEPT !.i = cdc.i + 1]
    /\ UNCHANGED <<codevars, genvars, restvars>>

\* roll the byte at offset i into the hash and split after it on a match
CdcStep ==
    /\ cdc.st = "open"
    /\ cdc.start + cdc.i < cdc.fetched
    /\ cdc.i >= cdc_opts.cdc_min_size
    /\ ~cdc_forced(cdc.i)
    /\ LET h == cdc_roll(cdc.h, cdc.data[cdc.start + cdc.i + 1])
       IN cdc' = IF cdc_match(cdc.i, h) THEN cdc_emit(cdc, cdc.i + 1)
                 ELSE [cdc EXCEPT !.i = cdc.i + 1, !.h = h]
    /\ UNCHANGED <<codevars, genvars, restvars>>

\* i == max_size: split here
CdcForce ==
    /\ cdc.st = "open"
    /\ cdc_forced(cdc.i)
    /\ cdc' = cdc_emit(cdc, cdc.i)
    /\ UNCHANGED <<codevars, genvars, restvars>>

\* end of stream: what is left is the last chunk
CdcFinish ==
    /\ cdc.st = "open"
    /\ cdc.fetched = Len(cdc.data)
    /\ cdc.start + cdc.i = Len(cdc.data)
    /\ ~cdc_forced(cdc.i)
    /\ cdc' = [(IF cdc.i > 0 THEN cdc_emit(cdc, cdc.i) ELSE cdc) EXCEPT !.st = "done"]
    /\ UNCHANGED <<codevars, genvars, restvars>>

CdcClose ==
    /\ cdc.st = "done"
    /\ cdc' = Closed
    /\ UNCHANGED <<codevars, genvars, restvars>>

NextCdc == CdcOpen \/ CdcRead \/ CdcSkip \/ CdcStep \/ CdcForce \/ CdcFinish \/ CdcClose

SpecCdc == Init /\ [][NextCdc]_vars

(***************************************************************************)
(* Claims about the chunker, checked under SpecCdc.                        *)
(***************************************************************************)
ChunkBytes(c, k) == SubSeq(c.data, c.chunks[k][1] + 1, c.chunks[k][1] + c.chunks[k][2])

Emitted(c) == Flatten([k \in 1..Len(c.chunks) |-> ChunkBytes(c, k)])

\* C10: the emitted chunks, concatenated in emission order, are the input
\* read so far (all of it at the end) with no overlap and no gap; every
\* chunk but possibly the last has a length within [min_size, max_size];
\* the rolling hash is 0 at each chunk boundary.
C10_CdcCoverage ==
    cdc # Closed =>
        /\ \A k \in 1..Len(cdc.chunks) :
               cdc.chunks[k][1] = IF k = 1 THEN 0
                                  ELSE cdc.chunks[k - 1][1] + cdc.chunks[k - 1][2]
        /\ Emitted(cdc) = SubSeq(cdc.data, 1, cdc.start)
        /\ cdc.st = "done" => Emitted(cdc) = cdc.data
        /\ \A k \in 1..Len(cdc.chunks) :
               /\ cdc.chunks[k][2] >= 1
               /\ cdc.chunks[k][2] <= cdc_opts.cdc_max_size
               /\ (k < Len(cdc.chunks) \/ cdc.st = "open") =>
                      cdc.chunks[k][2] >= cdc_opts.cdc_min_size
        /\ cdc.i = 0 => cdc.h = 0

\* a finished stream cut by the small mask, by the large mask and by
\* max_size, whose last chunk is shorter than min_size
C10_Witness ==
    /\ cdc # Closed
    /\ cdc.st = "done"
    /\ Len(cdc.chunks) >= 3
    /\ \E k \in 1..Len(cdc.chunks) : cdc.chunks[k][2] = cdc_opts.cdc_max_size
    /\ \E k \in 1..Len(cdc.chunks) : cdc.chunks[k][2] < cdc_opts.data_avg_chunk_size
    /\ cdc.chunks[Len(cdc.chunks)][2] < cdc_opts.cdc_min_size

(***************************************************************************)
(* Instance-Code (code_instance.py, specification 4.7; the result's shape  *)
(* is the one tests/test_code_instance.py expects).  The stream is pulled  *)
(* in reads of at most instance_read_size bytes, scaled down here; each    *)
(* read is pushed into the hasher, whose state is what it has absorbed.    *)
(***************************************************************************)
instance_opts == [instance_bits |-> 64, instance_read_size |-> 3]

\* mutant: a pushed read goes in front of what was absorbed before
InstanceHasherV0_push_Front(absorbed, data) == data \o absorbed

\* InstanceHasherV0.push: hasher.update(data)
InstanceHasherV0_push(absorbed, data) == absorbed \o data

\* InstanceHasherV0.digest
InstanceHasherV0_digest(absorbed) == blake3(absorbed)

\* InstanceHasherV0.code
InstanceHasherV0_code(absorbed, bits) ==
    encode_component(MT.INSTANCE_, ST.NONE, VS.V0, bits, InstanceHasherV0_digest(absorbed))

\* longest enumerated stream of the Instance-Code, in bytes
MaxInstLen == 5

InstStreams == SeqsUpTo(StreamByteVals, MaxInstLen)

InstOpen ==
    /\ inst = Closed
    /\ call = Idle /\ frames = <<>> /\ obj = NoObj /\ cdc = Closed /\ act = NoCall
    /\ \E data \in InstStreams, bits \in ValidBits :
           inst' = [st |-> "open", data |-> data, bits |-> bits, pos |-> 0,
                    absorbed |-> <<>>, filesize |-> 0]
    /\ UNCHANGED <<codevars, genvars, cdc, act, seen>>

\* data = stream.read(instance_read_size), not empty: push it.  A handle
\* may deliver fewer bytes than asked for.
InstRead ==
    /\ inst.st = "open"
    /\ inst.pos < Len(inst.data)
    /\ \E n \in 1..Min(instance_opts.instance_read_size, Len(inst.data) - inst.pos) :
           LET data == SubSeq(inst.data, inst.pos + 1, inst.pos + n)
           IN inst' = [inst EXCEPT !.pos = inst.pos + n,
                                   !.absorbed = InstanceHasherV0_push(inst.absorbed, data),
                                   !.filesize = inst.filesize + Len(data)]
    /\ UNCHANGED <<codevars, genvars, cdc, act, seen>>

\* the read returns no bytes: the loop ends and the result is built
InstFinish ==
    /\ inst.st = "open"
    /\ inst.pos = Len(inst.data)
    /\ LET instance_code == InstanceHasherV0_code(inst.absorbed, inst.bits)
       IN inst' = [st |-> "done", data |-> inst.data, bits |-> inst.bits,
                   result |-> [iscc |-> instance_code.val,
                               datahash |-> hexdigest(InstanceHasherV0_digest(inst.absorbed)),
                               filesize |-> inst.filesize]]
    /\ UNCHANGED <<codevars, genvars, cdc, act, seen>>

InstClose ==
    /\ inst.st = "done"
    /\ inst' = Closed
    /\ UNCHANGED <<codevars, genvars, cdc, act, seen>>

NextInst == InstOpen \/ InstRead \/ InstFinish \/ InstClose

SpecInst == Init /\ [][NextInst]_vars

\* C11: once the whole stream has been pulled, filesize is the number of
\* bytes delivered, datahash is the hex of the Blake3 digest of the bytes in
\* delivery order, however they were split into reads, and the body of the
\* code is the first `bits` bits of that digest.
C11_InstanceStreaming ==
    (inst # Closed /\ inst.st = "done") =>
        /\ inst.result.filesize = Len(inst.data)
        /\ inst.result.datahash = hexdigest(blake3(inst.data))
        /\ Code_hash_bits(Code_init(PyStr(inst.result.iscc)))
             = SubSeq(frombytes(blake3(inst.data)), 1, inst.bits)
        /\ Code_maintype(Code_init(PyStr(inst.result.iscc))) = MT.INSTANCE_

\* a stream longer than one read, whose bytes differ, has been coded
C11_Witness ==
    /\ inst # Closed
    /\ inst.st = "done"
    /\ Len(inst.data) > instance_opts.instance_read_size
    /\ inst.data[1] # inst.data[Len(inst.data)]
    /\ inst.bits = 96
    /\ inst.result.filesize = Len(inst.data)

(***************************************************************************)
(* gen_meta_code_v0, statement by statement.  act is the activation of one *)
(* call: its arguments, the locals assigned so far (Unset until then), the *)
(* statement it stands at, and how it ended: "returned" with a result, or  *)
(* "raised" with the error, act.at being the statement that raised it.     *)
(***************************************************************************)
Unset == [t |-> "unset"]

\* a value that is neither text, bytes nor None
PyInt(v) == [t |-> "int", v |-> v]

\* a title of k letters followed by a two-byte character and one more letter
LongTitle(k) == AsTuple([i \in 1..k |-> 97]) \o <<198, 72>>

ActNames ==
    {PyNone, PyStr(<<72>>), PyStr(<<32, 72, 105, 32, 32, 198, 10>>),
     PyStr(LongTitle(core_opts.meta_trim_title - 2)),
     PyStr(LongTitle(core_opts.meta_trim_title - 1))}

ActDescriptions ==
    {PyNone, PyStr(<<>>), PyStr(<<87>>), PyBytes(<<>>), PyBytes(<<0, 255>>),
     PyInt(0), PyInt(7)}

\* the valid bit lengths and one that is not a multiple of 32
ActBits == ValidBits \cup {48}

ActCall ==
    /\ act = NoCall
    /\ call = Idle /\ frames = <<>> /\ obj = NoObj /\ cdc = Closed /\ inst = Closed
    /\ \E name \in ActNames, description \in ActDescriptions, bits \in ActBits :
           act' = [pc |-> "normalize_title",
                   args |-> [name |-> name, description |-> description, bits |-> bits],
                   name |-> name, description |-> description,
                   metahash_payload |-> Unset, digest |-> Unset, meta_code |-> Unset,
                   metahash |-> Unset, result |-> Unset, at |-> Unset]
    /\ UNCHANGED <<codevars, genvars, cdc, inst, seen>>

\* 1. Normalize title
ActNormalizeTitle ==
    /\ act.pc = "normalize_title"
    /\ act' = [act EXCEPT !.pc = "normalize_extra", !.name = meta_name(act.name)]
    /\ UNCHANGED <<codevars, genvars, cdc, inst, seen>>

\* 2. Normalize extra, or raise ValueError
ActNormalizeExtra ==
    /\ act.pc = "normalize_extra"
    /\ LET step2 == meta_extra(act.args.name, act.description)
       IN act' = IF step2.ok
                 THEN [act EXCEPT !.pc = "soft_hash",
                                  !.description = step2.description,
                                  !.metahash_payload = step2.metahash_payload]
                 ELSE [act EXCEPT !.pc = "raised", !.result = step2, !.at = "normalize_extra"]
    /\ UNCHANGED <<codevars, genvars, cdc, inst, seen>>

\* digest = soft_hash_meta_v0(name, description)
ActSoftHash ==
    /\ act.pc = "soft_hash"
    /\ LET digest == soft_hash_meta_v0(act.name, act.description)
       IN act' = IF digest.ok
                 THEN [act EXCEPT !.pc = "encode", !.digest = digest.val]
                 ELSE [act EXCEPT !.pc = "raised", !.result = digest, !.at = "soft_hash"]
    /\ UNCHANGED <<codevars, genvars, cdc, inst, seen>>

\* meta_code = encode_component(...)
ActEncode ==
    /\ act.pc = "encode"
    /\ LET meta_code == encode_component(MT.META, ST.NONE, VS.V0, act.args.bits, act.digest)
       IN act' = IF meta_code.ok
                 THEN [act EXCEPT !.pc = "metahash", !.meta_code = meta_code.val]
                 ELSE [act EXCEPT !.pc = "raised", !.result = meta_code, !.at = "encode"]
    /\ UNCHANGED <<codevars, genvars, cdc, inst, seen>>

\* metahash = blake3(metahash_payload).hexdigest()
ActMetahash ==
    /\ act.pc = "metahash"
    /\ act' = [act EXCEPT !.pc = "finish",
                           !.metahash = hexdigest(blake3(act.metahash_payload))]
    /\ UNCHANGED <<codevars, genvars, cdc, inst, seen>>

\* the ISCC object is built and returned
ActFinish ==
    /\ act.pc = "finish"
    /\ act' = [act EXCEPT
                 !.pc = "returned",
                 !.result = [ok |-> TRUE,
                             iscc |-> ISCC_PREFIX \o act.meta_code,
                             name |-> IF act.name = <<>> THEN PyNone ELSE PyStr(act.name),
                             description |-> IF act.description.t = "bytes"
                                             THEN PyStr(encode_base64(act.description.v))
                                             ELSE act.description,
                             metahash |-> act.metahash]]
    /\ UNCHANGED <<codevars, genvars, cdc, inst, seen>>

\* the caller has taken the result or the error
ActEnd ==
    /\ act.pc \in {"returned", "raised"}
    /\ act' = NoCall
    /\ UNCHANGED <<codevars, genvars, cdc, inst, seen>>

NextAct ==
    \/ ActCall \/ ActNormalizeTitle \/ ActNormalizeExtra \/ ActSoftHash
    \/ ActEncode \/ ActMetahash \/ ActFinish \/ ActEnd

SpecAct == Init /\ [][NextAct]_vars

\* the activation ends as the function gen_meta_code_v0 says
ActAgreesWithFunction ==
    (act # NoCall /\ act.pc \in {"returned", "raised"}) =>
        act.result = gen_meta_code_v0(act.args.name, act.args.description, act.args.bits)

BadDescription(d) == d.t \notin {"str", "bytes", "None"}

\* C12: a call of gen_meta_code_v0 whose description is neither text, bytes
\* nor None never gets past the normalization of the description: it raises
\* ValueError there, with no digest computed, no code encoded, no metahash
\* and no result object.
C12_TypeMismatchRejected ==
    (act # NoCall /\ BadDescription(act.args.description)) =>
        /\ act.pc \in {"normalize_title", "normalize_extra", "raised"}
        /\ act.digest = Unset
        /\ act.meta_code = Unset
        /\ act.metahash_payload = Unset
        /\ act.pc = "raised" =>
               /\ act.result = Raise("ValueError")
               /\ act.at = "normalize_extra"
        /\ act.metahash = Unset
        /\ act.pc # "raised" => act.result = Unset

\* a call with an integer description has raised
C12_Witness ==
    /\ act # NoCall
    /\ act.args.description = PyInt(7)
    /\ act.args.name = PyStr(<<72>>)
    /\ act.pc = "raised"
    /\ act.result = Raise("ValueError")

(***************************************************************************)
(* Two calls with the same arguments.  seen remembers one finished call of *)
(* a generator, arguments and result; calls of the generators and changes  *)
(* of the caller's frame list go on after it.                              *)
(***************************************************************************)
PureNames == {PyNone, PyStr(<<72>>)}

PureDescriptions == {PyNone, PyBytes(<<0, 255>>)}

PureBits == {core_opts.meta_bits, 256}

\* mutant: the result depends on the frame list, which is no argument
PureCallMeta_ReadsFrames ==
    /\ call = Idle
    /\ \E name \in PureNames, description \in PureDescriptions, bits \in PureBits :
           /\ call' = [fn |-> "gen_meta_code_v0", name |-> name,
                       description |-> description, bits |-> bits]
           /\ ret' = gen_meta_code_v0(name, description, IF frames = <<>> THEN bits ELSE 32)
    /\ UNCHANGED <<frames, codevars, cdc, restvars>>

PureCallMeta ==
    /\ call = Idle
    /\ \E name \in PureNames, description \in PureDescriptions, bits \in PureBits :
           /\ call' = [fn |-> "gen_meta_code_v0", name |-> name,
                       description |-> description, bits |-> bits]
           /\ ret' = gen_meta_code_v0(name, description, bits)
    /\ UNCHANGED <<frames, codevars, cdc, restvars>>

Remember ==
    /\ seen = NoCall
    /\ call.fn \in {"gen_meta_code_v0", "gen_video_code_v0"}
    /\ call.fn = "gen_video_code_v0" =>
           Len(call.frame_signatures) <= 1 /\ call.bits = core_opts.video_bits
    /\ seen' = [pc |-> "seen", call |-> call, ret |-> ret]
    /\ UNCHANGED <<codevars, genvars, cdc, inst, act>>

NextPure ==
    \/ PureCallMeta \/ CallGenVideoCodeV0 \/ CallHashVideo
    \/ AddFrame \/ ReorderFrames \/ Return \/ Remember

SpecPure == Init /\ [][NextPure]_vars

MC_PREFIX == <<204, 1>>

\* bytes.hex()
bytes_hex(bytes) == hexdigest(bytes)

b58_alphabet ==
    <<49, 50, 51, 52, 53, 54, 55, 56, 57, 65, 66, 67, 68, 69, 70,
      71, 72, 74, 75, 76, 77, 78, 80, 81, 82, 83, 84, 85, 86, 87,
      88, 89, 90, 97, 98, 99, 100, 101, 102, 103, 104, 105, 106,
      107, 109, 110, 111, 112, 113, 114, 115, 116, 117, 118, 119,
      120, 121, 122>>

\* a big-endian base-256 number without its leading zero bytes
RECURSIVE strip_zeros(_)
strip_zeros(d) == IF d # <<>> /\ Head(d) = 0 THEN strip_zeros(Tail(d)) ELSE d

\* the remainder of the number d[1..i] divided by 58
RECURSIVE b58_rem(_, _)
b58_rem(d, i) == IF i = 0 THEN 0 ELSE (b58_rem(d, i - 1) * 256 + d[i]) % 58

b58_quot(d) == AsTuple([i \in 1..Len(d) |-> (b58_rem(d, i - 1) * 256 + d[i]) \div 58])

\* the base-58 digits of a number, most significant first
RECURSIVE b58_digits(_)
b58_digits(d) ==
    IF d = <<>> THEN <<>>
    ELSE b58_digits(strip_zeros(b58_quot(d))) \o <<b58_rem(d, Len(d))>>

\* base58.b58encode: one "1" for each leading zero byte, then the digits
b58encode(bytes) ==
    LET zeros == Len(bytes) - Len(strip_zeros(bytes))
        digits == b58_digits(strip_zeros(bytes))
    IN AsTuple([i \in 1..zeros |-> b58_alphabet[1]])
       \o AsTuple([i \in 1..Len(digits) |-> b58_alphabet[digits[i] + 1]])

\* mutant: the multicodec prefix is left out
Code_mc_bytes_NoPrefix(c) == Code_bytes(c)

Code_mc_bytes(c) == MC_PREFIX \o Code_bytes(c)

Code_mf_base16(c) == <<102>> \o bytes_hex(Code_mc_bytes(c))

Code_mf_base32(c) == <<98>> \o str_lower(encode_base32(Code_mc_bytes(c)))

Code_mf_base58btc(c) == <<122>> \o b58encode(Code_mc_bytes(c))

Code_mf_base64url(c) == <<117>> \o encode_base64(Code_mc_bytes(c))

(***************************************************************************)
(* Decoders of the four encodings, for the claim below.                    *)
(***************************************************************************)
hex_val(ch) == IF ch >= 48 /\ ch <= 57 THEN ch - 48 ELSE ch - 87

decode_base16(text) ==
    AsTuple([j \in 1..(Len(text) \div 2) |->
        16 * hex_val(text[2 * j - 1]) + hex_val(text[2 * j])])

b58_val(ch) == (CHOOSE k \in 1..58 : b58_alphabet[k] = ch) - 1

\* the big-endian base-256 number d * m + c
RECURSIVE b256_muladd(_, _, _)
b256_muladd(d, m, c) ==
    IF d = <<>> THEN (IF c = 0 THEN <<>> ELSE b256_muladd(<<>>, m, c \div 256) \o <<c % 256>>)
    ELSE LET x == d[Len(d)] * m + c
         IN b256_muladd(SubSeq(d, 1, Len(d) - 1), m, x \div 256) \o <<x % 256>>

RECURSIVE b58_number(_)
b58_number(text) ==
    IF text = <<>> THEN <<>>
    ELSE b256_muladd(b58_number(SubSeq(text, 1, Len(text) - 1)), 58, b58_val(text[Len(text)]))

RECURSIVE b58_ones(_)
b58_ones(text) ==
    IF text # <<>> /\ Head(text) = b58_alphabet[1] THEN 1 + b58_ones(Tail(text)) ELSE 0

decode_base58(text) ==
    AsTuple([i \in 1..b58_ones(text) |-> 0])
    \o b58_number(SubSeq(text, b58_ones(text) + 1, Len(text)))

b64_val(ch) == CHOOSE v \in 0..63 : b64_char(v) = ch

decode_base64(text) ==
    LET bits == FlattenFixed(AsTuple([k \in 1..Len(text) |->
                    AsTuple([j \in 1..6 |-> (b64_val(text[k]) \div (2 ^ (6 - j))) % 2])]), 6)
    IN tobytes(SubSeq(bits, 1, 8 * ((6 * Len(text)) \div 8)))

IsLowerBase32(text) ==
    \A i \in 1..Len(text) :
        (text[i] >= 97 /\ text[i] <= 122) \/ (text[i] >= 50 /\ text[i] <= 55)

\* C14: mc_bytes is 0xCC 0x01 followed by header || body; each multiformat
\* text is its leading character (f, b, z, u) followed by the base16,
\* lower-case base32, base58-btc or unpadded base64url encoding of mc_bytes,
\* and each decodes to mc_bytes, which without its first two bytes is
\* Code.bytes.
C14_Multiformat ==
    Held =>
        LET mc == Code_mc_bytes(obj)
        IN /\ mc = <<204, 1>> \o Code_header_bytes(obj) \o Code_hash_bytes(obj)
           /\ SubSeq(mc, 3, Len(mc)) = Code_bytes(obj)
           /\ Head(Code_mf_base16(obj)) = 102
           /\ decode_base16(Tail(Code_mf_base16(obj))) = mc
           /\ Head(Code_mf_base32(obj)) = 98
           /\ IsLowerBase32(Tail(Code_mf_base32(obj)))
           /\ decode_base32(Tail(Code_mf_base32(obj))) = [ok |-> TRUE, val |-> mc]
           /\ Head(Code_mf_base58btc(obj)) = 122
           /\ decode_base58(Tail(Code_mf_base58btc(obj))) = mc
           /\ Head(Code_mf_base64url(obj)) = 117
           /\ decode_base64(Tail(Code_mf_base64url(obj))) = mc

\* a META code of 32 bits whose body is not all zero
C14_Witness ==
    /\ Held
    /\ obj.head = <<MT.META, 0, 0, 0>>
    /\ obj.body = frombytes(<<165, 0, 165, 165>>)
    /\ Len(Code_mf_base58btc(obj)) > 9

(***************************************************************************)
(* dct.py.  The elements are integers here and the division by             *)
(* cos((i + 0.5) * pi / n) * 2.0, which is never zero for i < n / 2, is    *)
(* stood for by an integer scaling: lengths, errors and the order of the   *)
(* elements are those of the code.                                         *)
(***************************************************************************)
dct_scale(x, i, n) == x * (2 * i + 1)

\* mutant: every vector is returned as it is
dct_Identity(v) == [ok |-> TRUE, val |-> v]

RECURSIVE dct(_)
dct(v) ==
    LET n == Len(v)
        half == n \div 2
        alpha == AsTuple([i \in 1..half |-> v[i] + v[n - i + 1]])
        beta == AsTuple([i \in 1..half |-> dct_scale(v[i] - v[n - i + 1], i - 1, n)])
        a == dct(alpha)
        b == dct(beta)
    IN IF n = 1 THEN [ok |-> TRUE, val |-> v]
       ELSE IF n = 0 \/ n % 2 # 0 THEN Raise("ValueError")
       ELSE IF ~a.ok THEN a
       ELSE IF ~b.ok THEN b
       ELSE [ok |-> TRUE,
             val |-> AsTuple([k \in 1..n |->
                        IF k = n - 1 THEN a.val[half]
                        ELSE IF k = n THEN b.val[half]
                        ELSE IF k % 2 = 1 THEN a.val[(k + 1) \div 2]
                        ELSE b.val[k \div 2] + b.val[(k \div 2) + 1]])]

\* longest enumerated input vector
MaxVecLen == 12

DctVectors == SeqsUpTo({0, 3}, MaxVecLen)

CallDct ==
    /\ call = Idle
    /\ frames = <<>>
    /\ \E v \in DctVectors :
           /\ call' = [fn |-> "dct", v |-> v]
           /\ ret' = dct(v)
    /\ UNCHANGED <<frames, codevars, cdc, restvars>>

NextDct == CallDct \/ Return

SpecDct == Init /\ [][NextDct]_vars

IsPowerOfTwo(n) == \E k \in 0..n : 2 ^ k = n

\* C15: dct(v) returns len(v) elements when len(v) is a power of two >= 1,
\* v itself when len(v) = 1, and raises ValueError for every other length
\* (0, odd lengths above 1, even lengths that are no power of two).
C15_DctLength ==
    (call.fn = "dct") =>
        IF IsPowerOfTwo(Len(call.v))
        THEN /\ ret.ok
             /\ Len(ret.val) = Len(call.v)
             /\ Len(call.v) = 1 => ret.val = call.v
        ELSE ret = Raise("ValueError")

\* a vector of 12 elements has been rejected
C15_Witness ==
    /\ call.fn = "dct"
    /\ Len(call.v) = 12
    /\ call.v[1] # call.v[12]
    /\ ret = Raise("ValueError")

(***************************************************************************)
(* models.py: Code.rnd.  An argument left out is None.  Each call of       *)
(* choice and the call of urandom are outcomes the caller does not         *)
(* control, given to Code_rnd as the record r; the random body is one byte *)
(* value repeated.  UNITS, ST_ISCC and LN are constants.py and             *)
(* encode_units is codec.py: the optional units of a composite are META,   *)
(* SEMANTIC and CONTENT, DATA and INSTANCE being always present.           *)
(***************************************************************************)
UNITS == SUBSET {MT.META, MT.SEMANTIC, MT.CONTENT}

ST_ISCC == [SUM |-> 5]

LN == {32 * k : k \in 1..8}

\* the bitmap of the units present, DATA and INSTANCE among them
encode_units(units) ==
    (IF MT.META \in units THEN 1 ELSE 0) + (IF MT.SEMANTIC \in units THEN 2 ELSE 0)
    + (IF MT.CONTENT \in units THEN 4 ELSE 0) + 8 + 16

Code_rnd(mt, st, bits, data, r) ==
    LET mt1 == IF mt.t = "None" THEN r.mt ELSE mt.v
        \* the branch that assigns the local units
        assigned == st.t = "None" /\ mt1 = MT.ISCC
        st1 == IF st.t # "None" THEN st.v
               ELSE IF mt1 = MT.CONTENT THEN r.st_cc
               ELSE IF mt1 = MT.ISCC
               THEN IF MT.SEMANTIC \in r.units \/ MT.CONTENT \in r.units
                    THEN r.st_iscc ELSE ST_ISCC.SUM
               ELSE ST.NONE
        bits1 == IF assigned THEN Cardinality(r.units) * 64 + 128 ELSE bits.v
        ln_bits == IF bits1 # 0 THEN bits1 ELSE r.ln
        ln_code == IF mt1 = MT.ISCC THEN encode_units(r.units) ELSE encode_length(mt1, bits1)
        data1 == IF data.t = "None" THEN AsTuple([i \in 1..(ln_bits \div 8) |-> r.byte])
                 ELSE data.v
    IN IF mt1 = MT.ISCC /\ ~assigned THEN Raise("UnboundLocalError")
       ELSE Code_init([t |-> "tuple", v |-> <<mt1, st1, VS.V0, ln_code, data1>>])

\* the arguments of the calls
RndMainTypes == {PyNone} \cup {PyInt(m) : m \in {MT.META, MT.CONTENT, MT.DATA, MT.ISCC}}

RndSubTypes == {PyNone, PyInt(ST.NONE), PyInt(ST_CC.VIDEO)}

RndBits == {PyInt(32), PyInt(64)}

RndData == {PyNone, PyBytes(<<165, 165, 165, 165>>), PyBytes(<<0, 0, 0, 0, 0, 0, 0, 0>>)}

\* the outcomes of choice and urandom that a call with these arguments reads
RndOutcomes(mt, st, bits, data) ==
    [mt : IF mt.t = "None" THEN 0..6 ELSE {mt.v},
     st_cc : IF st.t = "None" THEN SubTypes(MT.CONTENT) ELSE {ST_CC.TEXT},
     st_iscc : IF st.t = "None" THEN SubTypes(MT.ISCC) ELSE {ST_ISCC.SUM},
     units : IF st.t = "None" THEN UNITS ELSE {{}},
     ln : IF bits.v = 0 THEN LN ELSE {bits.v},
     byte : IF data.t = "None" THEN BodyByteVals ELSE {0}]

Rnd ==
    /\ obj = NoObj
    /\ call = Idle
    /\ \E mt \in RndMainTypes, st \in RndSubTypes, bits \in RndBits, data \in RndData :
         \E r \in RndOutcomes(mt, st, bits, data) :
           /\ obj' = Code_rnd(mt, st, bits, data, r)
           /\ via' = "rnd"
           /\ call' = [fn |-> "Code.rnd", mt |-> mt, st |-> st, bits |-> bits, data |-> data]
           /\ UNCHANGED <<other, dist, ret, frames, cdc, restvars>>

\* the caller lets go of the result
RndDrop ==
    /\ via = "rnd"
    /\ obj' = NoObj
    /\ via' = "none"
    /\ call' = Idle
    /\ UNCHANGED <<other, dist, ret, frames, cdc, restvars>>

NextRnd == Rnd \/ RndDrop

SpecRnd == Init /\ [][NextRnd]_vars

\* C16: Code.rnd returns a syntactically correct code for every combination
\* of its arguments: the call completes without error, the SubType of the
\* result is one of its MainType, and the body has as many bits as the
\* header declares.
C16_RndIsSyntacticallyCorrect ==
    (via = "rnd") =>
        /\ obj.ok
        /\ Code_subtype(obj) \in SubTypes(Code_maintype(obj))
        /\ Len(Code_hash_bits(obj)) = Code_length(obj)

\* the part of C16 that the code keeps: when neither the SubType nor the data
\* is given, the call completes with a valid pair and a body of the declared
\* length
C16_RndOfMainTypeOnly ==
    (via = "rnd" /\ call.st.t = "None" /\ call.data.t = "None") =>
        /\ obj.ok
        /\ Code_subtype(obj) \in SubTypes(Code_maintype(obj))
        /\ Len(Code_hash_bits(obj)) = Code_length(obj)

(***************************************************************************)
(* code_meta.py: trim_text, called by itself and through step 1 of         *)
(* gen_meta_code_v0 with names around the limit of meta_trim_title bytes.  *)
(***************************************************************************)
MaxTrimLen == 4

MaxTrimBytes == 7

\* a letter, a space, a two-byte and a three-byte character
TrimChars == {97, 32, 198, 8364}

TrimTexts == SeqsUpTo(TrimChars, MaxTrimLen)

\* names of 127 to 131 bytes, with a space or a character across the limit
TrimNames ==
    {PyStr(<<72>>), PyStr(LongTitle(core_opts.meta_trim_title - 3)),
     PyStr(LongTitle(core_opts.meta_trim_title - 2)),
     PyStr(LongTitle(core_opts.meta_trim_title - 1)),
     PyStr(LongTitle(core_opts.meta_trim_title)),
     PyStr(LongTitle(core_opts.meta_trim_title - 2) \o <<8364>>),
     PyStr(AsTuple([i \in 1..(core_opts.meta_trim_title - 1) |-> 97]) \o <<32, 72, 72>>)}

TrimDescriptions == {PyNone, PyStr(<<87>>)}

CallTrimText ==
    /\ call = Idle
    /\ \E text \in TrimTexts, nbytes \in 0..MaxTrimBytes :
           /\ call' = [fn |-> "trim_text", text |-> text, nbytes |-> nbytes]
           /\ ret' = [ok |-> TRUE, val |-> trim_text(text, nbytes)]
    /\ UNCHANGED <<frames, codevars, cdc, restvars>>

TrimCallMeta ==
    /\ call = Idle
    /\ \E name \in TrimNames, description \in TrimDescriptions :
           /\ call' = [fn |-> "gen_meta_code_v0", name |-> name,
                       description |-> description, bits |-> core_opts.meta_bits]
           /\ ret' = gen_meta_code_v0(name, description, core_opts.meta_bits)
    /\ UNCHANGED <<frames, codevars, cdc, restvars>>

NextTrim == CallTrimText \/ TrimCallMeta \/ Return

SpecTrim == Init /\ [][NextTrim]_vars

\* the longest prefix of t, in whole characters, whose UTF-8 encoding has at
\* most n bytes
WholePrefix(t, n) ==
    LET fits == {k \in 0..Len(t) : Len(encode_utf8(SubSeq(t, 1, k))) <= n}
    IN SubSeq(t, 1, CHOOSE k \in fits : \A j \in fits : j <= k)

\* the text of a name in a result, None being the empty name
NameText(name) == IF name.t = "None" THEN <<>> ELSE name.v

\* C17: trim_text(t, n) is the longest prefix of t made of whole characters
\* whose UTF-8 encoding fits in n bytes, stripped of leading and trailing
\* whitespace, so it encodes to at most n bytes; and the name stored and
\* hashed by gen_meta_code_v0 is such a prefix of the normalized name, of at
\* most meta_trim_title bytes.
C17_TrimText ==
    /\ (call.fn = "trim_text") =>
           /\ ret.val = strip(WholePrefix(call.text, call.nbytes))
           /\ Len(encode_utf8(ret.val)) <= call.nbytes
    /\ (call.fn = "gen_meta_code_v0" /\ ret.ok) =>
           /\ Len(encode_utf8(NameText(ret.name))) <= core_opts.meta_trim_title
           /\ NameText(ret.name) =
                  strip(WholePrefix(collapse_text(NameText(call.name)),
                                    core_opts.meta_trim_title))
           /\ (call.description.t = "None") =>
                  ret.metahash = hexdigest(blake3(encode_utf8(NameText(ret.name))))

\* a three-byte character cut by the limit is dropped and the space before it
\* stripped
C17_Witness ==
    /\ call.fn = "trim_text"
    /\ call.text = <<97, 32, 8364, 97>>
    /\ call.nbytes = 4
    /\ ret.val = <<97>>

\* a name of 130 bytes is stored with 127: the two-byte character across the
\* limit is gone
C17_NameWitness ==
    /\ call.fn = "gen_meta_code_v0"
    /\ call.name = PyStr(LongTitle(core_opts.meta_trim_title - 1))
    /\ ret.ok
    /\ Len(encode_utf8(ret.name.v)) = core_opts.meta_trim_title - 1

====
